---------------------------- MODULE Spec2Model ----------------------------
(***************************************************************************)
(* Model of the EDA pipeline: utils.py (cleaning), eda.py (figures, tests, *)
(* exports) and models.py (the three statistical tests).                   *)
(*                                                                         *)
(* A CSV cell is a text, written as a tuple of one-character strings.      *)
(* A number is NaN, +/-inf, or a finite decimal num/den with den the least *)
(* power of ten that keeps num an integer, so that equal numbers are equal *)
(* records.  The real-valued statistics (chi2, U, H, p) are not computed:  *)
(* a test result keeps its integer fields only.                            *)
(***************************************************************************)
EXTENDS Integers, Sequences, FiniteSets, TLC

\* ------------------------------------------------------------- bounds
\* Integer month texts run over 0..MaxMonth.
MaxMonth == 13
\* Rows of one kind with a value present, Dataset A (risk groups).
MaxGroupA == 4
\* Rows of one kind with a value present, Dataset B (month groups).
MaxGroupB == 3
\* Rows of one kind with a missing or odd cell.
MaxMissing == 1

\* ------------------------------------------------------------ numbers
NaN == [k |-> "nan"]
Inf(s) == [k |-> "inf", s |-> s]

RECURSIVE Normal(_, _)
Normal(n, d) ==
    IF d > 1 /\ n % 10 = 0 THEN Normal(n \div 10, d \div 10)
    ELSE [k |-> "fin", num |-> n, den |-> d]

Fin(n) == Normal(n, 1)

\* pd.isna on a number.
isna(x) == x.k = "nan"

Abs(n) == IF n < 0 THEN -n ELSE n

\* ---------------------------------------------------------- cell texts
Digits == <<"0", "1", "2", "3", "4", "5", "6", "7", "8", "9">>
Uppers == <<"A", "B", "C", "D", "E", "F", "G", "H", "I", "J", "K", "L", "M",
            "N", "O", "P", "Q", "R", "S", "T", "U", "V", "W", "X", "Y", "Z">>
Lowers == <<"a", "b", "c", "d", "e", "f", "g", "h", "i", "j", "k", "l", "m",
            "n", "o", "p", "q", "r", "s", "t", "u", "v", "w", "x", "y", "z">>
Spaces == {" ", "\t"}

Range(s) == {s[i] : i \in DOMAIN s}
IsDigits(s) == s # <<>> /\ Range(s) \subseteq Range(Digits)
DigitOf(c) == (CHOOSE i \in DOMAIN Digits : Digits[i] = c) - 1

RECURSIVE DigitsValue(_)
DigitsValue(s) ==
    IF s = <<>> THEN 0
    ELSE 10 * DigitsValue(SubSeq(s, 1, Len(s) - 1)) + DigitOf(s[Len(s)])

RECURSIVE Pow10(_)
Pow10(n) == IF n = 0 THEN 1 ELSE 10 * Pow10(n - 1)

\* The decimal text of a natural number below 100 (to write input cells).
DecText(n) ==
    IF n < 10 THEN <<Digits[n + 1]>>
    ELSE <<Digits[(n \div 10) + 1], Digits[(n % 10) + 1]>>

ParseUnsigned(s) ==
    LET dots == {i \in DOMAIN s : s[i] = "."}
    IN  IF dots = {} THEN (IF IsDigits(s) THEN Fin(DigitsValue(s)) ELSE NaN)
        ELSE IF Cardinality(dots) > 1 THEN NaN
        ELSE LET p  == CHOOSE i \in dots : TRUE
                 ip == SubSeq(s, 1, p - 1)
                 fp == SubSeq(s, p + 1, Len(s))
             IN  IF /\ ip \o fp # <<>>
                    /\ Range(ip \o fp) \subseteq Range(Digits)
                 THEN Normal(DigitsValue(ip \o fp), Pow10(Len(fp)))
                 ELSE NaN

Negate(x) ==
    CASE x.k = "fin" -> Normal(-x.num, x.den)
      [] x.k = "inf" -> Inf(-x.s)
      [] OTHER -> x

\* pd.to_numeric(cell, errors="coerce") on one cell read from the CSV: an
\* empty cell and any unparseable text give NaN.  Cells are plain decimal
\* texts, "inf", or text that is no number (no exponents, no blanks).
to_numeric(s) ==
    IF s = <<>> THEN NaN
    ELSE LET neg  == s[1] = "-"
             body == IF s[1] \in {"-", "+"} THEN Tail(s) ELSE s
             v    == IF body = <<"i", "n", "f">> THEN Inf(1) ELSE ParseUnsigned(body)
         IN  IF neg THEN Negate(v) ELSE v

lower(s) ==
    [i \in DOMAIN s |->
        IF s[i] \in Range(Uppers)
        THEN Lowers[CHOOSE j \in DOMAIN Uppers : Uppers[j] = s[i]]
        ELSE s[i]]

RECURSIVE lstrip(_)
lstrip(s) == IF s # <<>> /\ s[1] \in Spaces THEN lstrip(Tail(s)) ELSE s

RECURSIVE rstrip(_)
rstrip(s) ==
    IF s # <<>> /\ s[Len(s)] \in Spaces THEN rstrip(SubSeq(s, 1, Len(s) - 1)) ELSE s

strip(s) == rstrip(lstrip(s))

\* ------------------------------------------------------------ utils.py
\* int(m) of a finite float: truncation toward zero.
IntOf(m) == IF m.num < 0 THEN -((-m.num) \div m.den) ELSE m.num \div m.den

\* int(m) raises OverflowError on an infinite float.
IntRaises(m) == m.k = "inf"

\* The result "OverflowError" stands for the exception int(m) raises.
dry_wet_from_month(m) ==
    IF isna(m) THEN "None"
    ELSE IF IntRaises(m) THEN "OverflowError"
    ELSE LET i == IntOf(m)
         IN  IF i \in {11, 12, 1, 2, 3, 4} THEN "Wet"
             ELSE IF i \in {5, 6, 7, 8, 9, 10} THEN "Dry"
             ELSE "None"

SeasonMap(s) ==
    CASE s = <<"0">> -> "Dry"
      [] s = <<"1">> -> "Wet"
      [] s = <<"d", "r", "y">> -> "Dry"
      [] s = <<"w", "e", "t">> -> "Wet"
      [] OTHER -> "None"


\* A table is [cols |-> set of column names, rows |-> sequence of rows], a
\* row being a function from cols to cells.
Numeric1 == {"risk", "reward", "seconds_after_rat_arrival",
             "hours_after_sunset", "month"}
Numeric2 == {"hours_after_sunset", "bat_landing_number", "food_availability",
             "rat_minutes", "rat_arrival_number", "month"}

coerce_numeric(df, cols) ==
    [df EXCEPT !.rows =
        [i \in DOMAIN df.rows |->
            [c \in df.cols |->
                IF c \in cols THEN to_numeric(df.rows[i][c]) ELSE df.rows[i][c]]]]

\* df["season"].astype(str).str.lower().str.strip().map({...}) on one cell.
SeasonFromColumn(cell) == SeasonMap(strip(lower(cell)))

\* Where with the fallback first: the season column wins over the month.
WhereSeasonFirst(dw, season_dw) == IF season_dw # "None" THEN season_dw ELSE dw

\* dw.where(dw.notna(), season_dw) on one row.
Where(dw, season_dw) == IF dw # "None" THEN dw ELSE season_dw

\* Whether standardise_dataset1 raises: df["month"].map(dry_wet_from_month)
\* calls int() on every month that is not NaN.
standardise_dataset1_raises(df) ==
    /\ "month" \in df.cols
    /\ \E i \in DOMAIN df.rows :
          dry_wet_from_month(to_numeric(df.rows[i]["month"])) = "OverflowError"

standardise_dataset1(df) ==
    LET num == coerce_numeric(df, Numeric1)
        season_dw(i) ==
            IF "season" \in df.cols THEN SeasonFromColumn(df.rows[i]["season"])
            ELSE "None"
        final(i) ==
            IF "month" \in df.cols
            THEN Where(dry_wet_from_month(num.rows[i]["month"]), season_dw(i))
            ELSE season_dw(i)
    IN  [cols |-> df.cols \cup {"season"},
         rows |-> [i \in DOMAIN df.rows |->
                    [c \in df.cols \cup {"season"} |->
                        IF c = "season" THEN final(i) ELSE num.rows[i][c]]]]

standardise_dataset2(df) == coerce_numeric(df, Numeric2)


\* -------------------------------------------------------------- inputs
\* Cell texts.
Empty == <<>>
T0 == <<"0">>
T1 == <<"1">>
T2 == <<"2">>
T3 == <<"3">>
T4 == <<"4">>
T5 == <<"5">>
T6 == <<"6">>
T7 == <<"7">>
T12 == <<"1", "2">>
Tabc == <<"a", "b", "c">>
Tinf == <<"i", "n", "f">>

MonthTexts ==
    {DecText(n) : n \in 0..MaxMonth}
        \cup {Empty, Tabc, Tinf, <<"-", "1">>, <<"0", ".", "5">>,
              <<"4", ".", "7">>, <<"1", "0", ".", "5">>, <<"1", "2", ".", "5">>}

SeasonTexts ==
    {<<"d", "r", "y">>, <<" ", "W", "e", "t", " ">>, <<"D", "R", "Y">>, T0, T1,
     <<"0", ".", "0">>, <<"s", "u", "m", "m", "e", "r">>, <<"n", "a", "n">>}

Columns1 == Numeric1 \cup {"season"}
Columns2 == Numeric2

Restrict(row, cols) == [c \in cols |-> row[c]]
Repeat(row, n) == [i \in 1..n |-> row]
Table(cols, rows) == [cols |-> cols, rows |-> [i \in DOMAIN rows |-> Restrict(rows[i], cols)]]

RowA(risk, reward, seconds, month) ==
    [c \in Columns1 |->
        CASE c = "risk" -> risk
          [] c = "reward" -> reward
          [] c = "seconds_after_rat_arrival" -> seconds
          [] c = "month" -> month
          [] c = "hours_after_sunset" -> <<"2", ".", "5">>
          [] OTHER -> <<"w", "e", "t">>]

RowB(month, arrivals) ==
    [c \in Columns2 |->
        CASE c = "month" -> month
          [] c = "rat_arrival_number" -> arrivals
          [] c = "hours_after_sunset" -> <<"1", ".", "5">>
          [] OTHER -> T2]

\* Two fixed, well-formed tables.
PlainA == Table(Columns1, <<RowA(T0, T1, T5, T12), RowA(T1, T0, Empty, T6)>>)
PlainB == Table(Columns2, <<RowB(T1, T2), RowB(T2, T4)>>)

\* Dataset A with one row of any month and season text, any of the month,
\* season and risk columns absent.
SeasonInputs ==
    {[a |-> Table(cols, <<[RowA(T1, T1, T5, m) EXCEPT !["season"] = s]>>), b |-> PlainB] :
        cols \in SUBSET {"month", "season", "risk"}, m \in MonthTexts, s \in SeasonTexts}

\* Dataset A with n rows of each kind: risk 0 or 1 with the seconds present
\* or missing, and rows with the risk missing.
GroupInputsA ==
    {[a |-> Table(cols,
                  Repeat(RowA(T0, T1, T5, T12), n0)
                     \o Repeat(RowA(T0, T0, T7, T6), m0)
                     \o Repeat(RowA(T0, T0, Empty, T6), x0)
                     \o Repeat(RowA(T1, T1, T5, T6), n1)
                     \o Repeat(RowA(T1, Empty, Empty, T12), x1)
                     \o Repeat(RowA(Empty, T0, T3, T1), xn)),
      b |-> PlainB] :
        cols \in {{"risk", "reward", "seconds_after_rat_arrival", "month"},
                  {"risk", "seconds_after_rat_arrival", "month"}},
        n0 \in 0..MaxGroupA, n1 \in 0..MaxGroupA,
        m0 \in {0, 1}, x0 \in 0..MaxMissing,
        x1 \in 0..MaxMissing, xn \in 0..MaxMissing}

\* Dataset B with n rows of each kind: months 1, 2 and 3 with the arrivals
\* present or missing, and rows with the month missing.
GroupInputsB ==
    {[a |-> PlainA,
      b |-> Table(cols,
                  Repeat(RowB(T1, T2), n1)
                     \o Repeat(RowB(T1, Empty), x1)
                     \o Repeat(RowB(T2, T2), n2)
                     \o Repeat(RowB(T2, T4), m2)
                     \o Repeat(RowB(T3, T2), n3)
                     \o Repeat(RowB(Empty, T3), xn))] :
        cols \in {{"month", "rat_arrival_number"}},
        n1 \in 0..MaxGroupB, n2 \in 0..MaxGroupB, n3 \in 0..MaxGroupB,
        x1 \in 0..MaxMissing, m2 \in {0, 1}, xn \in 0..MaxMissing}

\* Every set of columns of one table present, on the two fixed tables.
ColumnInputs ==
    {[a |-> Table(ca, PlainA.rows), b |-> PlainB] : ca \in SUBSET Columns1}
        \cup {[a |-> PlainA, b |-> Table(cb, PlainB.rows)] : cb \in SUBSET Columns2}

Inputs == SeasonInputs \cup GroupInputsA \cup GroupInputsB \cup ColumnInputs


\* -------------------------------------------------------------- eda.py
VARIABLES
    raw1, raw2,   \* the two CSV files under root
    d1, d2,       \* the cleaned tables of run_all (NoFrame before load_clean)
    pc,           \* the step run_all is about to take
    rule,         \* the plot rule make_figures is about to take
    failedAt,     \* the step that raised ("" while none has)
    cause,        \* why it raised: "io" (a file operation failed), "savefig"
                  \* (a call inside safe_savefig), "data" (the input data)
    attempted,    \* the plot rules whose column check passed
    figs,         \* the chart files written under figures/
    openFigs,     \* the matplotlib figures open (pyplot's global state)
    results,      \* the results dict of run_all
    summary,      \* eda_summary.json
    digest        \* quick_metrics.txt

vars == <<raw1, raw2, d1, d2, pc, rule, failedAt, cause, attempted, figs, openFigs,
          results, summary, digest>>

NoFrame == [cols |-> {}, rows |-> <<>>]
NoDict == <<>>
NoResults == [shapes |-> NoDict, means |-> NoDict, tests |-> NoDict]
NoFile == [file |-> "absent", data |-> NoDict]

Init ==
    /\ \E in \in Inputs : raw1 = in.a /\ raw2 = in.b
    /\ d1 = NoFrame
    /\ d2 = NoFrame
    /\ pc = "load"
    /\ rule = 1
    /\ failedAt = ""
    /\ cause = ""
    /\ attempted = {}
    /\ figs = {}
    /\ openFigs = 0
    /\ results = NoResults
    /\ summary = NoFile
    /\ digest = NoFile

\* An exception leaves run_all: nothing catches it.
Abort(step, why) ==
    /\ pc' = "aborted"
    /\ failedAt' = step
    /\ cause' = why

\* load_clean, the CSV files readable.
LoadClean ==
    /\ pc = "load"
    /\ ~standardise_dataset1_raises(raw1)
    /\ d1' = standardise_dataset1(raw1)
    /\ d2' = standardise_dataset2(raw2)
    /\ pc' = "figures"
    /\ UNCHANGED <<raw1, raw2, rule, failedAt, cause, attempted, figs, openFigs,
                   results, summary, digest>>

\* load_clean with a CSV file that cannot be read: pd.read_csv raises.
ReadFails ==
    /\ pc = "load"
    /\ Abort("load", "io")
    /\ UNCHANGED <<raw1, raw2, d1, d2, rule, attempted, figs, openFigs,
                   results, summary, digest>>

\* load_clean with standardise_dataset1 raising.
StandardiseRaises ==
    /\ pc = "load"
    /\ standardise_dataset1_raises(raw1)
    /\ Abort("load", "data")
    /\ UNCHANGED <<raw1, raw2, d1, d2, rule, attempted, figs, openFigs,
                   results, summary, digest>>

\* FigureRules with the column check of the second block copied from the
\* first.
FigureRulesCopied ==
    <<[file |-> "risk_by_season.png", frame |-> 1, kind |-> "bar",
       cols |-> {"season", "risk"}, by |-> "season"],
      [file |-> "reward_by_season.png", frame |-> 1, kind |-> "bar",
       cols |-> {"season", "risk"}, by |-> "season"],
      [file |-> "sec_after_rat_by_risk.png", frame |-> 1, kind |-> "bar",
       cols |-> {"risk", "seconds_after_rat_arrival"}, by |-> "risk"],
      [file |-> "hours_after_sunset_by_risk.png", frame |-> 1, kind |-> "bar",
       cols |-> {"risk", "hours_after_sunset"}, by |-> "risk"],
      [file |-> "rat_arrivals_by_month.png", frame |-> 2, kind |-> "line",
       cols |-> {"month", "rat_arrival_number"}, by |-> "month"],
      [file |-> "rat_arrivals_vs_hours.png", frame |-> 2, kind |-> "scatter",
       cols |-> {"hours_after_sunset", "rat_arrival_number"}, by |-> ""],
      [file |-> "rat_arrivals_vs_food.png", frame |-> 2, kind |-> "scatter",
       cols |-> {"food_availability", "rat_arrival_number"}, by |-> ""]>>

\* The seven blocks of make_figures, in order.
FigureRules ==
    <<[file |-> "risk_by_season.png", frame |-> 1, kind |-> "bar",
       cols |-> {"season", "risk"}, by |-> "season"],
      [file |-> "reward_by_season.png", frame |-> 1, kind |-> "bar",
       cols |-> {"season", "reward"}, by |-> "season"],
      [file |-> "sec_after_rat_by_risk.png", frame |-> 1, kind |-> "bar",
       cols |-> {"risk", "seconds_after_rat_arrival"}, by |-> "risk"],
      [file |-> "hours_after_sunset_by_risk.png", frame |-> 1, kind |-> "bar",
       cols |-> {"risk", "hours_after_sunset"}, by |-> "risk"],
      [file |-> "rat_arrivals_by_month.png", frame |-> 2, kind |-> "line",
       cols |-> {"month", "rat_arrival_number"}, by |-> "month"],
      [file |-> "rat_arrivals_vs_hours.png", frame |-> 2, kind |-> "scatter",
       cols |-> {"hours_after_sunset", "rat_arrival_number"}, by |-> ""],
      [file |-> "rat_arrivals_vs_food.png", frame |-> 2, kind |-> "scatter",
       cols |-> {"food_availability", "rat_arrival_number"}, by |-> ""]>>

Frame(r) == IF r.frame = 1 THEN d1 ELSE d2

\* The column check of a block: {...} <= set(df.columns).
ColumnsPresent(r) == r.cols \subseteq Frame(r).cols

\* A groupby key that is missing: its rows are in no group.
KeyMissing(key, v) == IF key = "season" THEN v = "None" ELSE isna(v)

\* The keys of df.groupby(key): the values of the key column that are not
\* missing.
GroupKeys(df, key) ==
    {df.rows[i][key] : i \in {j \in DOMAIN df.rows : ~KeyMissing(key, df.rows[j][key])}}

\* Whether the data a block plots is empty: no group, or no row.
PlotsNothing(r) ==
    IF r.kind = "scatter" THEN Frame(r).rows = <<>>
    ELSE GroupKeys(Frame(r), r.by) = {}

\* Whether the .plot call of a block raises.  A bar plot of an empty series
\* raises in pandas; a line or scatter plot of empty data raises in some
\* pandas versions and draws an empty chart in others.
PlotMayRaise(r) == PlotsNothing(r)
PlotMayReturn(r) == ~PlotsNothing(r) \/ r.kind # "bar"

\* The figures open after a .plot call: a Series plot draws on the current
\* figure when there is one, a DataFrame plot opens a new one.
AfterPlot(r, n) == IF r.kind # "scatter" /\ n > 0 THEN n ELSE n + 1

\* plt.close(): closes the current figure, if any.
Close(n) == IF n > 0 THEN n - 1 ELSE 0

\* safe_savefig(path) with `fault` the call of it that raises ("" for none),
\* from n open figures: the file written or not, the figures left open,
\* and whether it raised.
SaveFaults == {"", "makedirs", "tight_layout", "savefig"}
safe_savefig(path, fault, n) ==
    IF fault = ""
    THEN [written |-> {path}, open |-> Close(n), raised |-> FALSE]
    ELSE [written |-> {}, open |-> n, raised |-> TRUE]

NextRule ==
    /\ rule' = rule + 1
    /\ pc' = IF rule = Len(FigureRules) THEN "means" ELSE "figures"

\* A block of make_figures whose columns are absent: skipped.
SkipFigure ==
    /\ pc = "figures"
    /\ ~ColumnsPresent(FigureRules[rule])
    /\ NextRule
    /\ UNCHANGED <<raw1, raw2, d1, d2, failedAt, cause, attempted, figs,
                   openFigs, results, summary, digest>>

\* A block of make_figures whose columns are present and whose .plot call
\* returns: safe_savefig runs, and raises or not.
SaveFigure ==
    /\ pc = "figures"
    /\ ColumnsPresent(FigureRules[rule])
    /\ PlotMayReturn(FigureRules[rule])
    /\ attempted' = attempted \cup {FigureRules[rule].file}
    /\ \E fault \in SaveFaults :
          LET r == FigureRules[rule]
              s == safe_savefig(r.file, fault, AfterPlot(r, openFigs))
          IN  /\ figs' = figs \cup s.written
              /\ openFigs' = s.open
              /\ IF s.raised
                 THEN Abort("figures", "savefig") /\ rule' = rule
                 ELSE NextRule /\ UNCHANGED <<failedAt, cause>>
    /\ UNCHANGED <<raw1, raw2, d1, d2, results, summary, digest>>

\* A block of make_figures whose .plot call raises: before the figure is
\* opened or after, by the pandas version.
PlotRaises ==
    /\ pc = "figures"
    /\ ColumnsPresent(FigureRules[rule])
    /\ PlotMayRaise(FigureRules[rule])
    /\ attempted' = attempted \cup {FigureRules[rule].file}
    /\ openFigs' \in {openFigs, AfterPlot(FigureRules[rule], openFigs)}
    /\ Abort("figures", "data")
    /\ UNCHANGED <<raw1, raw2, d1, d2, rule, figs, results, summary, digest>>

\* ----------------------------------------------------------- models.py
Column(df, c) == [i \in DOMAIN df.rows |-> df.rows[i][c]]

fillna(col, v) == [i \in DOMAIN col |-> IF isna(col[i]) THEN v ELSE col[i]]

\* Series.dropna().
dropna(col) == SelectSeq(col, LAMBDA x : ~isna(x))

\* pd.crosstab(a, b) as {column: {row: count}}, the form ct.to_dict() gives.
crosstab(a, b) ==
    [cb \in Range(b) |->
        [ra \in Range(a) |->
            Cardinality({i \in DOMAIN a : a[i] = ra /\ b[i] = cb})]]

\* stats.chi2_contingency raises ValueError on a table of size 0.
chi_square_raises(a, b) == Range(a) = {} \/ Range(b) = {}

\* chi_square: the degrees of freedom and the table (chi2, p not computed).
chi_square(a, b) ==
    [dof |-> (Cardinality(Range(a)) - 1) * (Cardinality(Range(b)) - 1),
     table |-> crosstab(a, b)]

\* mann_whitney: the group sizes (U, p not computed).
mann_whitney(a, b) == [n_a |-> Len(a), n_b |-> Len(b)]

\* kruskal: H and p are not computed; the result keeps the group sizes it
\* was computed from.
kruskal(groups) == [sizes |-> [g \in DOMAIN groups |-> Len(groups[g])]]

\* scipy raises "All numbers are identical" from mannwhitneyu (before 1.7)
\* and from kruskal, and does not in later versions.
AllIdentical(values) == Cardinality(Range(values)) = 1

RECURSIVE Flatten(_, _)
Flatten(groups, keys) ==
    IF keys = {} THEN <<>>
    ELSE LET g == CHOOSE x \in keys : TRUE
         IN  groups[g] \o Flatten(groups, keys \ {g})

\* ------------------------------------------------------ run_all, step 3
RECURSIVE GCD(_, _)
GCD(a, b) == IF b = 0 THEN a ELSE GCD(b, a % b)

Max(a, b) == IF a > b THEN a ELSE b

\* The sum of finite numbers.
RECURSIVE Sum(_)
Sum(col) ==
    IF col = <<>> THEN Fin(0)
    ELSE LET x == Head(col)
             r == Sum(Tail(col))
             d == Max(x.den, r.den)
         IN  Normal(x.num * (d \div x.den) + r.num * (d \div r.den), d)

\* Series.mean(): the mean of the values that are not NaN, as a reduced
\* fraction; NaN when there is none; infinite values make it infinite or NaN.
Mean(col) ==
    LET v    == dropna(col)
        infs == {v[i].s : i \in {j \in DOMAIN v : v[j].k = "inf"}}
    IN  IF v = <<>> \/ Cardinality(infs) = 2 THEN NaN
        ELSE IF infs # {} THEN Inf(CHOOSE x \in infs : TRUE)
        ELSE LET t == Sum(v)
                 g == GCD(Abs(t.num), t.den * Len(v))
             IN  [k |-> "ratio", num |-> t.num \div g, den |-> (t.den * Len(v)) \div g]

Put(dict, key, value) == (key :> value) @@ dict

Shape(df) == <<Len(df.rows), Cardinality(df.cols)>>

\* The results dict and the mean rates.
Means ==
    /\ pc = "means"
    /\ results' =
          [shapes |-> [dataset1 |-> Shape(d1), dataset2 |-> Shape(d2)],
           means  |-> [c \in {"risk", "reward"} \cap d1.cols |-> Mean(Column(d1, c))],
           tests  |-> NoDict]
    /\ pc' = "chi2"
    /\ UNCHANGED <<raw1, raw2, d1, d2, rule, failedAt, cause, attempted, figs,
                   openFigs, summary, digest>>

Unchanged3 ==
    UNCHANGED <<raw1, raw2, d1, d2, rule, attempted, figs, openFigs, summary, digest>>

\* Chi-square, the columns absent.
SkipChiSquare ==
    /\ pc = "chi2"
    /\ ~({"risk", "reward"} \subseteq d1.cols)
    /\ pc' = "mw"
    /\ UNCHANGED <<results, failedAt, cause>>
    /\ Unchanged3

\* Chi-square of risk against reward, missing values as the category -1.
ChiSquare ==
    /\ pc = "chi2"
    /\ {"risk", "reward"} \subseteq d1.cols
    /\ LET a == fillna(Column(d1, "risk"), Fin(-1))
           b == fillna(Column(d1, "reward"), Fin(-1))
       IN  IF chi_square_raises(a, b)
           THEN Abort("chi2", "data") /\ UNCHANGED results
           ELSE /\ results' = [results EXCEPT
                      !.tests = Put(@, "risk_vs_reward_chi2", chi_square(a, b))]
                /\ pc' = "mw"
                /\ UNCHANGED <<failedAt, cause>>
    /\ Unchanged3

\* d1.loc[d1["risk"] == v, "seconds_after_rat_arrival"].dropna().
SecondsOfRisk(v) ==
    dropna(Column([d1 EXCEPT !.rows = SelectSeq(@, LAMBDA r : r["risk"] = v)],
                  "seconds_after_rat_arrival"))

\* MannWhitneyRuns with the threshold off by one: len(a) >= 3.
MannWhitneyRunsFromThree ==
    /\ {"risk", "seconds_after_rat_arrival"} \subseteq d1.cols
    /\ Len(SecondsOfRisk(Fin(0))) >= 3
    /\ Len(SecondsOfRisk(Fin(1))) >= 3

MannWhitneyRuns ==
    /\ {"risk", "seconds_after_rat_arrival"} \subseteq d1.cols
    /\ Len(SecondsOfRisk(Fin(0))) > 3
    /\ Len(SecondsOfRisk(Fin(1))) > 3

\* Mann-Whitney, the columns absent or a group too small.
SkipMannWhitney ==
    /\ pc = "mw"
    /\ ~MannWhitneyRuns
    /\ pc' = "kw"
    /\ UNCHANGED <<results, failedAt, cause>>
    /\ Unchanged3

MannWhitney ==
    /\ pc = "mw"
    /\ MannWhitneyRuns
    /\ results' = [results EXCEPT
          !.tests = Put(@, "sec_after_rat_by_risk_mw",
                        mann_whitney(SecondsOfRisk(Fin(0)), SecondsOfRisk(Fin(1))))]
    /\ pc' = "kw"
    /\ UNCHANGED <<failedAt, cause>>
    /\ Unchanged3

MannWhitneyRaises ==
    /\ pc = "mw"
    /\ MannWhitneyRuns
    /\ AllIdentical(SecondsOfRisk(Fin(0)) \o SecondsOfRisk(Fin(1)))
    /\ Abort("mw", "data")
    /\ UNCHANGED results
    /\ Unchanged3

\* [g.dropna().values for _, g in d2.groupby(d2["month"])["rat_arrival_number"]],
\* by month (the order of the list is not modelled).
MonthGroups ==
    [m \in GroupKeys(d2, "month") |->
        dropna(Column([d2 EXCEPT !.rows = SelectSeq(@, LAMBDA r : r["month"] = m)],
                      "rat_arrival_number"))]

\* KruskalRuns without a second group asked for: len(groups) > 0.
KruskalRunsOnOneGroup ==
    /\ {"month", "rat_arrival_number"} \subseteq d2.cols
    /\ Cardinality(DOMAIN MonthGroups) > 0
    /\ \A m \in DOMAIN MonthGroups : Len(MonthGroups[m]) > 2

KruskalRuns ==
    /\ {"month", "rat_arrival_number"} \subseteq d2.cols
    /\ Cardinality(DOMAIN MonthGroups) > 1
    /\ \A m \in DOMAIN MonthGroups : Len(MonthGroups[m]) > 2

\* Kruskal-Wallis, the columns absent, one group or none, or a group too
\* small.
SkipKruskal ==
    /\ pc = "kw"
    /\ ~KruskalRuns
    /\ pc' = "json"
    /\ UNCHANGED <<results, failedAt, cause>>
    /\ Unchanged3

Kruskal ==
    /\ pc = "kw"
    /\ KruskalRuns
    /\ results' = [results EXCEPT
          !.tests = Put(@, "rat_arrivals_kruskal_by_month", kruskal(MonthGroups))]
    /\ pc' = "json"
    /\ UNCHANGED <<failedAt, cause>>
    /\ Unchanged3

KruskalRaises ==
    /\ pc = "kw"
    /\ KruskalRuns
    /\ AllIdentical(Flatten(MonthGroups, DOMAIN MonthGroups))
    /\ Abort("kw", "data")
    /\ UNCHANGED results
    /\ Unchanged3

\* ------------------------------------------------------ run_all, step 4
\* ExportJson with the failure swallowed: the run goes on to the digest.
ExportJsonSwallows ==
    /\ pc = "json"
    /\ \E fault \in {"", "open", "dump"} :
          /\ summary' = CASE fault = "" -> [file |-> "complete", data |-> results]
                          [] fault = "dump" -> [file |-> "partial", data |-> NoDict]
                          [] OTHER -> summary
          /\ pc' = "txt"
          /\ UNCHANGED <<failedAt, cause>>
    /\ UNCHANGED <<raw1, raw2, d1, d2, rule, attempted, figs, openFigs, results, digest>>

\* open(..., "w") creates or empties the file; json.dump then writes it.
ExportJson ==
    /\ pc = "json"
    /\ \E fault \in {"", "open", "dump"} :
          /\ summary' = CASE fault = "" -> [file |-> "complete", data |-> results]
                          [] fault = "dump" -> [file |-> "partial", data |-> NoDict]
                          [] OTHER -> summary
          /\ IF fault = "" THEN pc' = "txt" /\ UNCHANGED <<failedAt, cause>>
             ELSE Abort("json", "io")
    /\ UNCHANGED <<raw1, raw2, d1, d2, rule, attempted, figs, openFigs, results, digest>>

\* The lines of the digest: the label of each line with the value it
\* prints (the decimal formatting is not modelled).
DigestLines ==
    <<<<"Dataset1 shape", results.shapes.dataset1>>,
      <<"Dataset2 shape", results.shapes.dataset2>>>>
        \o (IF "risk" \in DOMAIN results.means
            THEN <<<<"Mean risk rate", results.means["risk"]>>>> ELSE <<>>)
        \o (IF "reward" \in DOMAIN results.means
            THEN <<<<"Mean reward rate", results.means["reward"]>>>> ELSE <<>>)
        \o (IF "risk_vs_reward_chi2" \in DOMAIN results.tests
            THEN <<<<"Risk vs Reward chi2", results.tests["risk_vs_reward_chi2"].dof>>>>
            ELSE <<>>)

ExportTxt ==
    /\ pc = "txt"
    /\ \E fault \in {"", "open", "write"} :
          /\ digest' = CASE fault = "" -> [file |-> "complete", data |-> DigestLines]
                         [] fault = "write" -> [file |-> "partial", data |-> NoDict]
                         [] OTHER -> digest
          /\ IF fault = "" THEN pc' = "done" /\ UNCHANGED <<failedAt, cause>>
             ELSE Abort("txt", "io")
    /\ UNCHANGED <<raw1, raw2, d1, d2, rule, attempted, figs, openFigs, results, summary>>

Next ==
    \/ LoadClean \/ ReadFails \/ StandardiseRaises
    \/ SkipFigure \/ SaveFigure \/ PlotRaises
    \/ Means
    \/ SkipChiSquare \/ ChiSquare
    \/ SkipMannWhitney \/ MannWhitney \/ MannWhitneyRaises
    \/ SkipKruskal \/ Kruskal \/ KruskalRaises
    \/ ExportJson \/ ExportTxt

Spec == Init /\ [][Next]_vars

\* ------------------------------------------------------------- claims
Loaded == pc # "load" /\ failedAt # "load"
Rows1 == DOMAIN d1.rows
WetMonths == {11, 12, 1, 2, 3, 4}
DryMonths == {5, 6, 7, 8, 9, 10}
IsWhole(m, months) == m.k = "fin" /\ m.den = 1 /\ m.num \in months
OutOfRange(m) == m.k = "inf" \/ (m.k = "fin" /\ (m.num < m.den \/ m.num > 12 * m.den))

\* C1: with no season column, the season of every row is the one
\* dry_wet_from_month derives from its coerced month: "Wet" for a month in
\* {11,12,1,2,3,4}, "Dry" for a month in {5,...,10}, and missing for a month
\* that is missing or outside 1-12, whole or not.
C1_SeasonOfEveryMonth ==
    (Loaded /\ "month" \in raw1.cols /\ "season" \notin raw1.cols) =>
        \A i \in Rows1 :
            LET m == d1.rows[i]["month"]
                season == d1.rows[i]["season"]
            IN  /\ IsWhole(m, WetMonths) => season = "Wet"
                /\ IsWhole(m, DryMonths) => season = "Dry"
                /\ (isna(m) \/ OutOfRange(m)) => season = "None"

\* What the month cell and the season cell of a raw row derive.
MonthDerived(i) ==
    IF "month" \in raw1.cols
    THEN dry_wet_from_month(to_numeric(raw1.rows[i]["month"]))
    ELSE "None"
ColumnDerived(i) ==
    IF "season" \in raw1.cols THEN SeasonFromColumn(raw1.rows[i]["season"]) ELSE "None"

\* C2: after standardise_dataset1 the season of every row is the
\* month-derived value when that is not missing, whatever the season column
\* says, and the value mapped from the season column (missing when there is
\* no such column) otherwise.
C2_MonthTakesPrecedence ==
    Loaded =>
        \A i \in Rows1 :
            /\ MonthDerived(i) # "None" => d1.rows[i]["season"] = MonthDerived(i)
            /\ MonthDerived(i) = "None" => d1.rows[i]["season"] = ColumnDerived(i)

\* C2's case: a season column that says Dry, a month that says Wet.
C2_Witness ==
    /\ Loaded
    /\ "month" \in raw1.cols
    /\ \E i \in Rows1 :
          /\ ColumnDerived(i) = "Dry"
          /\ raw1.rows[i]["month"] = T12
          /\ d1.rows[i]["season"] = "Wet"

Chi2Key == "risk_vs_reward_chi2"
MWKey == "sec_after_rat_by_risk_mw"
KWKey == "rat_arrivals_kruskal_by_month"
Ended == pc \in {"done", "aborted"}
PastChiSquare ==
    pc \in {"mw", "kw", "json", "txt", "done"} \/ failedAt \in {"mw", "kw", "json", "txt"}

\* C3: the chi-square result is recorded under tests["risk_vs_reward_chi2"]
\* exactly when Dataset A has the risk and the reward column, at every row
\* count: past the step the key is there iff the columns are, the step does
\* not raise, and a run on zero rows that no file operation stopped ends
\* with the result recorded.
C3_ChiSquareAtEveryRowCount ==
    /\ failedAt # "chi2"
    /\ PastChiSquare =>
          (Chi2Key \in DOMAIN results.tests <=> {"risk", "reward"} \subseteq d1.cols)
    /\ (Ended /\ Loaded /\ cause \notin {"io", "savefig"} /\ d1.rows = <<>>
          /\ {"risk", "reward"} \subseteq d1.cols)
          => Chi2Key \in DOMAIN results.tests

\* The rows of risk group v with the seconds present.
SecondsPresent(v) ==
    {i \in Rows1 : d1.rows[i]["risk"] = Fin(v)
                     /\ ~isna(d1.rows[i]["seconds_after_rat_arrival"])}

\* C4: the summary holds the Mann-Whitney result exactly when Dataset A has
\* the risk and seconds_after_rat_arrival columns and each of the groups
\* risk = 0 and risk = 1 has more than 3 values present.
C4_MannWhitneyIff ==
    summary.file = "complete" =>
        (MWKey \in DOMAIN summary.data.tests
            <=> /\ {"risk", "seconds_after_rat_arrival"} \subseteq d1.cols
                /\ Cardinality(SecondsPresent(0)) > 3
                /\ Cardinality(SecondsPresent(1)) > 3)

\* C4's case: the result in the summary, computed from a group of 4.
C4_Witness ==
    /\ summary.file = "complete"
    /\ MWKey \in DOMAIN summary.data.tests
    /\ summary.data.tests[MWKey].n_a = 4

\* The rows of month m with the arrivals present.
ArrivalsPresent(m) ==
    {i \in DOMAIN d2.rows : d2.rows[i]["month"] = m
                              /\ ~isna(d2.rows[i]["rat_arrival_number"])}
Months2 == {d2.rows[i]["month"] : i \in {j \in DOMAIN d2.rows : ~isna(d2.rows[j]["month"])}}

\* C5: the summary holds the Kruskal-Wallis result exactly when Dataset B
\* has the month and rat_arrival_number columns, its rows have at least 2
\* months, and every month has more than 2 arrivals present.
C5_KruskalIff ==
    summary.file = "complete" =>
        (KWKey \in DOMAIN summary.data.tests
            <=> /\ {"month", "rat_arrival_number"} \subseteq d2.cols
                /\ Cardinality(Months2) >= 2
                /\ \A m \in Months2 : Cardinality(ArrivalsPresent(m)) > 2)

\* C5's case: the result in the summary, computed from months of 3 rows.
C5_Witness ==
    /\ summary.file = "complete"
    /\ KWKey \in DOMAIN summary.data.tests
    /\ \E m \in Months2 : Cardinality(ArrivalsPresent(m)) = 3

SeasonCharts == {"risk_by_season.png", "reward_by_season.png"}

\* C6: when the Dataset A file has neither a month nor a season column, no
\* step raises on the data, every season is missing, and neither season
\* chart is attempted or written.
C6_NoSeasonNoSeasonCharts ==
    ("month" \notin raw1.cols /\ "season" \notin raw1.cols) =>
        /\ cause # "data"
        /\ Loaded => \A i \in Rows1 : d1.rows[i]["season"] = "None"
        /\ SeasonCharts \cap (attempted \cup figs) = {}

\* The columns each chart is drawn from, and the table they are in.
ChartColumns(f) ==
    CASE f = "risk_by_season.png" -> [frame |-> 1, cols |-> {"season", "risk"}]
      [] f = "reward_by_season.png" -> [frame |-> 1, cols |-> {"season", "reward"}]
      [] f = "sec_after_rat_by_risk.png" ->
            [frame |-> 1, cols |-> {"risk", "seconds_after_rat_arrival"}]
      [] f = "hours_after_sunset_by_risk.png" ->
            [frame |-> 1, cols |-> {"risk", "hours_after_sunset"}]
      [] f = "rat_arrivals_by_month.png" ->
            [frame |-> 2, cols |-> {"month", "rat_arrival_number"}]
      [] f = "rat_arrivals_vs_hours.png" ->
            [frame |-> 2, cols |-> {"hours_after_sunset", "rat_arrival_number"}]
      [] f = "rat_arrivals_vs_food.png" ->
            [frame |-> 2, cols |-> {"food_availability", "rat_arrival_number"}]
      [] OTHER -> [frame |-> 1, cols |-> {"no such chart"}]

ChartsOnlyFromTheirColumns ==
    \A f \in figs : ChartColumns(f).cols \subseteq Frame(ChartColumns(f)).cols

\* C7 as stated: make_figures writes at most six charts, each only when its
\* columns are in the cleaned table.
C7_AtMostSixCharts == Cardinality(figs) <= 6 /\ ChartsOnlyFromTheirColumns

\* C7 as amended: make_figures writes at most seven charts, each only when
\* its columns are in the cleaned table.
C7_AtMostSevenCharts == Cardinality(figs) <= 7 /\ ChartsOnlyFromTheirColumns

\* C7's case: every chart written.
C7_Witness == Cardinality(figs) = 7

\* C8: no figure is open once safe_savefig has returned or raised: after
\* every block of make_figures that reached safe_savefig, and so at every
\* step of a run whose plots did not raise themselves.
C8_FigureClosedAfterSave ==
    (pc # "aborted" \/ cause = "savefig") => openFigs = 0

\* C9: standardise_dataset1 and standardise_dataset2 never raise, whatever
\* columns are absent and whatever the cells hold.
C9_StandardiseNeverRaises == ~(failedAt = "load" /\ cause = "data")

BeforeJson == {"load", "figures", "means", "chi2", "mw", "kw"}

C10_Order ==
    /\ figs # {} => Loaded
    /\ results # NoResults => (Loaded /\ pc # "figures" /\ failedAt # "figures")
    /\ summary.file # "absent" =>
          (pc \in {"txt", "done"} \/ failedAt \in {"json", "txt"})
    /\ digest.file # "absent" =>
          (summary.file = "complete" /\ (pc = "done" \/ failedAt = "txt"))
    /\ (pc \in BeforeJson \/ failedAt \in BeforeJson) =>
          (summary.file = "absent" /\ digest.file = "absent")
    /\ (pc = "load" \/ failedAt = "load") => (figs = {} /\ results = NoResults)
    /\ failedAt = "json" => (summary.file # "complete" /\ digest.file = "absent")

C10_Kept ==
    /\ figs \subseteq figs'
    /\ pc # "figures" => figs' = figs
    /\ summary.file = "complete" => summary' = summary
    /\ pc = "aborted" => UNCHANGED vars

\* C10: run_all takes its steps in the order load, figures, metrics and
\* tests, eda_summary.json, quick_metrics.txt; a step that raises ends the
\* run with no artifact of a later step written and every artifact written
\* before kept as it is; quick_metrics.txt is written only after a complete
\* eda_summary.json.
C10_StepsInOrder == [](C10_Order) /\ [][C10_Kept]_vars

\* C10's case: the run stopped at the summary, the charts on disk, no
\* digest.
C10_Witness ==
    /\ pc = "aborted"
    /\ failedAt = "json"
    /\ figs # {}
    /\ digest.file = "absent"

=============================================================================
